---- MODULE Spec2Model ----
(***************************************************************************)
(* A model of pySPIRALTAP.py: the SPIRALTAP proximal-gradient loop with    *)
(* the Barzilai-Borwein step size, the monotone acceptance (backtracking)  *)
(* loop, the convergence checker and the trace bookkeeping.                *)
(*                                                                         *)
(* Numbers.  The program computes in float64; the model computes in exact  *)
(* rationals <<n, d>> (d > 0, lowest terms).  A float division by zero     *)
(* (numpy: inf or nan, no exception) is modelled where the code can meet   *)
(* it: every comparison with such a value is FALSE, as with nan and +inf.  *)
(* Signals are vectors of length 2 (tuples of rationals), the operator A   *)
(* is a 2x2 integer matrix and AT its transpose.                           *)
(***************************************************************************)
EXTENDS Integers, Sequences, FiniteSets, TLC

\* ---------------------------------------------------------------- bounds
\* maxiter is drawn from 1..MaxIter.
MaxIter == 3

\* ------------------------------------------------------------- rationals
Abs(n) == IF n < 0 THEN -n ELSE n

RECURSIVE GCD(_, _)
GCD(a, b) == IF b = 0 THEN a ELSE GCD(b, a % b)

RNorm(n, d) == LET g == GCD(Abs(n), d) IN <<n \div g, d \div g>>

R(n) == <<n, 1>>
RZero == R(0)
\* Sums go over the least common denominator and products are reduced
\* crosswise first, so that the intermediate integers stay small.
RAdd(a, b) ==
    LET g == GCD(a[2], b[2])
    IN RNorm(a[1] * (b[2] \div g) + b[1] * (a[2] \div g), (a[2] \div g) * b[2])
RNeg(a) == <<-a[1], a[2]>>
RSub(a, b) == RAdd(a, RNeg(b))
RMul(a, b) ==
    LET g == GCD(Abs(a[1]), b[2])
        h == GCD(Abs(b[1]), a[2])
    IN <<(a[1] \div g) * (b[1] \div h), (a[2] \div h) * (b[2] \div g)>>
\* a / b for b # 0
RDiv(a, b) == IF b[1] > 0 THEN RMul(a, <<b[2], b[1]>>)
              ELSE RMul(a, <<-b[2], -b[1]>>)
RLeq(a, b) ==
    LET g == GCD(a[2], b[2]) IN a[1] * (b[2] \div g) <= b[1] * (a[2] \div g)
RLt(a, b) == ~RLeq(b, a)
RAbs(a) == <<Abs(a[1]), a[2]>>
RMax(a, b) == IF RLeq(a, b) THEN b ELSE a
RMin(a, b) == IF RLeq(a, b) THEN a ELSE b

\* --------------------------------------------------------------- vectors
Idx(v) == 1..Len(v)
VInt(v) == [i \in Idx(v) |-> R(v[i])]
VSub(u, v) == [i \in Idx(u) |-> RSub(u[i], v[i])]
VMul(u, v) == [i \in Idx(u) |-> RMul(u[i], v[i])]
\* v + c, v * c and v / c for a scalar c (numpy broadcasting)
VAddS(v, c) == [i \in Idx(v) |-> RAdd(v[i], c)]
VMulS(v, c) == [i \in Idx(v) |-> RMul(v[i], c)]
VDivS(v, c) == [i \in Idx(v) |-> RDiv(v[i], c)]

RECURSIVE SumTo(_, _)
SumTo(v, k) == IF k = 0 THEN RZero ELSE RAdd(SumTo(v, k - 1), v[k])
\* v.sum()
VSum(v) == SumTo(v, Len(v))
\* (v**2).sum()
VSumSq(v) == VSum(VMul(v, v))
\* np.abs(v).sum()
VSumAbs(v) == VSum([i \in Idx(v) |-> RAbs(v[i])])

\* The matrix M (a tuple of integer rows) applied to v, and its transpose.
MatVec(M, v) ==
    [i \in 1..Len(M) |-> VSum([j \in Idx(v) |-> RMul(R(M[i][j]), v[j])])]
Transpose(M) == [j \in 1..Len(M[1]) |-> [i \in 1..Len(M) |-> M[i][j]]]

\* np.sqrt on the perfect squares the observations are drawn from
ISqrt(n) == CHOOSE r \in 0..n : r * r = n

\* ------------------------------------------------- the pure subfunctions

\* computegrad: the gradient of the negative log-likelihood.
computegrad(y, Ax, A, noisetype, logepsilon) ==
    IF noisetype = "poisson"
    THEN MatVec(Transpose(A),
                [i \in Idx(Ax) |->
                    RSub(R(1), RDiv(R(y[i]), RAdd(Ax[i], logepsilon)))])
    ELSE MatVec(Transpose(A), VSub(Ax, VInt(y)))

\* One entry of y*np.log(Ax + logepsilon).  The Poisson observations of the
\* model are all 0, where the product is 0 whenever Ax + logepsilon > 0.
YLogTerm(yi, v) == CASE yi = 0 /\ RLt(RZero, v) -> RZero

\* The data-fit term of computeobjective (part (1)).
DataFit(y, Ax, noisetype, logepsilon) ==
    IF noisetype = "poisson"
    THEN RSub(VSum(Ax),
              VSum([i \in Idx(Ax) |-> YLogTerm(y[i], RAdd(Ax[i], logepsilon))]))
    ELSE RDiv(VSumSq(VSub(VInt(y), Ax)), R(2))

\* The penalty term sum(|tau*x|) of the canonical penalty.
PenaltyTerm(tau, x) == VSumAbs(VMulS(x, tau))

\* penalty.lower=='canonical' (line 141): the attribute penalty.lower is the
\* bound method, never called, and a method object equals no string.
PenaltyLowerIs(penalty, name) == FALSE

\* computeobjective: part (1) plus, in the branch line 141 selects, part (2).
computeobjective(x, y, Ax, tau, noisetype, logepsilon, penalty) ==
    IF PenaltyLowerIs(penalty, "canonical")
    THEN RAdd(DataFit(y, Ax, noisetype, logepsilon), PenaltyTerm(tau, x))
    ELSE DataFit(y, Ax, noisetype, logepsilon)

\* ClipAtZero without the assignment of line 162.
KeepNegative(out) == out

\* out[out<0]=0
ClipAtZero(out) == [i \in Idx(out) |-> IF RLt(out[i], RZero) THEN RZero ELSE out[i]]

\* computesubsolution, canonical penalty: step - tau/alpha + mu clipped at 0.
computesubsolution(step, tau, alpha, mu) ==
    ClipAtZero(VAddS(VAddS(step, RNeg(RDiv(tau, alpha))), mu))

\* num/den <= bound as float64 evaluates it: a zero denominator gives nan or
\* +inf, and neither is <= a finite bound.
QuotientLeq(num, den, bound) ==
    IF den[1] = 0 THEN FALSE ELSE RLeq(RDiv(num, den), bound)

\* checkconvergence raises (todo()) for the two unimplemented criteria.
checkconvergenceRaises(itern, miniter, stopcriterion) ==
    itern >= miniter /\ stopcriterion \in {5, 6}

\* checkconvergence: the verdict; cputime is the entry cputime[itern] of the
\* trace, objective the whole trace.
checkconvergence(itern, miniter, stopcriterion, tolerance, dx, x, cputime, objective) ==
    IF itern >= miniter
    THEN CASE stopcriterion = 1 -> FALSE
           [] stopcriterion = 2 -> RLeq(tolerance, cputime)
           [] stopcriterion = 3 ->
                QuotientLeq(RMul(VSum(dx), VSum(dx)), RMul(VSum(x), VSum(x)),
                            RMul(tolerance, tolerance))
           [] stopcriterion = 4 ->
                QuotientLeq(RAbs(RSub(objective[itern], objective[itern - 1])),
                            RAbs(objective[itern - 1]), tolerance)
           [] OTHER -> FALSE
    ELSE FALSE

\* ------------------------------------------------------ the call's inputs

\* acceptmult, the keyword default (line 255)
acceptmult == 2
\* acceptdecrease = 0.1, the keyword default (line 255)
acceptdecrease == <<1, 10>>
\* logepsilon: the keyword argument (default 1e-10), given as 1/10 here.
logepsilon == <<1, 10>>

Identity == << <<1, 0>>, <<0, 1>> >>
SwapTwice == << <<0, 2>>, <<2, 0>> >>
\* The sensing matrices A; AT is the transpose (line 334).
Operators == {Identity, SwapTwice}

\* (noisetype, y, initialization): Poisson counts are all zero, Gaussian data
\* are not; initialization is <<>> (the default []) or a starting point.
NoiseData == { <<"poisson", <<0, 0>>, <<>> >>, <<"gaussian", <<1, 2>>, <<>> >>,
               <<"gaussian", <<1, 2>>, <<RZero, RZero>> >> }
\* tau, a real (float) scalar
Taus == {R(0), R(1)}
Mus == {R(-1), R(0)}
\* (alphamin, alphainit, alphamax)
AlphaSettings == { <<R(1), R(1), R(3)>>, <<R(1), R(2), R(2)>> }
\* (alphamethod, monotone, acceptpast, kwargs): kwargs holds the names of
\* the extra keywords the caller passes (acceptalphamax is one, line 273).
StepSettings == { <<0, 1, 10, {}>>, <<1, 0, 10, {}>>,
                  <<1, 1, 0, {}>>, <<1, 1, 1, {}>>,
                  <<1, 1, 1, {"acceptalphamax"}>> }
\* (stopcriterion, tolerance)
StopSettings == { <<1, <<1, 2>> >>, <<2, R(2)>>, <<3, R(0)>>, <<3, <<1, 2>> >>,
                  <<4, <<1, 2>> >> }
\* (miniter, maxiter)
IterSettings == { <<lo, hi>> : lo \in 1..MaxIter, hi \in 1..MaxIter }
\* (saveobjective, savecputime, savereconerror)
TraceSettings == { <<FALSE, FALSE, FALSE>>, <<TRUE, FALSE, FALSE>>,
                   <<TRUE, TRUE, TRUE>> }
\* truth, given whenever a trace needs it
Truth == <<R(1), R(1)>>

Config(nd, A, tau, mu, al, st, sp, it, tr) ==
    [ noisetype |-> nd[1], y |-> nd[2], initialization |-> nd[3], A |-> A, tau |-> tau, mu |-> mu,
      penalty |-> "canonical",
      alphamin |-> al[1], alphainit |-> al[2], alphamax |-> al[3],
      alphamethod |-> st[1], monotone |-> st[2], acceptpast |-> st[3],
      kwargs |-> st[4],
      stopcriterion |-> sp[1], tolerance |-> sp[2],
      miniter |-> it[1], maxiter |-> it[2],
      saveobjective |-> tr[1], savecputime |-> tr[2], savereconerror |-> tr[3] ]

\* A noise model the code does not know (line 278).
UnknownNoiseData == { <<"laplace", <<1, 2>>, <<>> >> }
\* (stopcriterion, tolerance) for the two criteria checkconvergence leaves
\* to todo() (lines 216-219) and for a value it has no branch for.
OtherStopSettings == { <<5, <<1, 2>> >>, <<6, <<1, 2>> >>, <<7, <<1, 2>> >> }

\* The calls with an unknown noise model or an unusual stopping criterion:
\* every step-size and budget setting, on one operator and one step range.
UnusualConfigs ==
    { Config(nd, Identity, R(0), R(0), <<R(1), R(1), R(3)>>, st, sp, it,
             <<TRUE, TRUE, TRUE>>) :
        nd \in NoiseData \cup UnknownNoiseData, st \in StepSettings,
        sp \in StopSettings \cup OtherStopSettings, it \in IterSettings }

Configs ==
    { Config(nd, A, tau, mu, al, st, sp, it, tr) :
        nd \in NoiseData, A \in Operators, tau \in Taus, mu \in Mus,
        al \in AlphaSettings, st \in StepSettings, sp \in StopSettings,
        it \in IterSettings, tr \in TraceSettings }

\* ------------------------------------------------------------- the state
VARIABLES
    cfg,               \* the arguments of the call
    pc,                \* "start", "while", "computed", "inner", "done", "raised"
    err,               \* the exception that ended the call, or "none"
    itern, converged,
    x, xprevious, Ax, Axprevious, grad, dx, Adx,
    alpha, normsqdx, gamma,
    maxpastobjective, accept, acceptalpha,
    objective, cputime, reconerror,
    clock,             \* time.time() - tic, in ticks
    varargout

vars == <<cfg, pc, err, itern, converged, x, xprevious, Ax, Axprevious, grad,
          dx, Adx, alpha, normsqdx, gamma, maxpastobjective, accept,
          acceptalpha, objective, cputime, reconerror, clock, varargout>>

A(v) == MatVec(cfg.A, v)
AT(v) == MatVec(Transpose(cfg.A), v)
Zeros == <<RZero, RZero>>
\* np.zeros((maxiter+1)), indexed from 0
ZeroTrace(maxiter) == [k \in 0..maxiter |-> RZero]
\* the relative l1 error of line 519 (reconerrortype 1)
computereconerror(v, mu) ==
    RDiv(VSumAbs(VSub(VAddS(v, mu), Truth)), VSumAbs(Truth))

\* The state on entry, for a call with one of the configurations C: the
\* defaults itern=1 and converged=0 of the signature, nothing computed yet.
Entry(C) ==
    /\ cfg \in C
    /\ pc = "start"
    /\ err = "none"
    /\ itern = 1
    /\ converged = FALSE
    /\ x = Zeros /\ xprevious = Zeros /\ Ax = Zeros /\ Axprevious = Zeros
    /\ grad = Zeros /\ dx = Zeros /\ Adx = Zeros
    /\ alpha = RZero /\ normsqdx = RZero /\ gamma = RZero
    /\ maxpastobjective = RZero /\ accept = 0 /\ acceptalpha = RZero
    /\ objective = ZeroTrace(0) /\ cputime = ZeroTrace(0)
    /\ reconerror = ZeroTrace(0)
    /\ clock = 0
    /\ varargout = [iterations |-> 0]

Init == Entry(Configs) \/ Entry(UnusualConfigs)

\* ------------------------------------------------------------ the set-up

\* The validity checks without the comparison of miniter with maxiter
\* (lines 306-307).
SetupErrorUnorderedBudget(c) ==
    CASE c.noisetype \notin {"poisson", "gaussian"} -> "TypeError"
      [] c.penalty \notin {"canonical", "onb", "rdp", "rdp-ti", "tv"} -> "TypeError"
      [] RLt(c.tolerance, RZero) -> "TypeError"
      [] c.miniter <= 0 \/ c.maxiter <= 0 -> "TypeError"
      [] c.penalty \in {"onb", "rdp", "rdp-ti"} -> "NotImplementedError"
      [] OTHER -> "none"

\* The validity checks of lines 276-387, in their order: the exception the
\* call ends with before the loop, or "none".
SetupError(c) ==
    CASE c.noisetype \notin {"poisson", "gaussian"} -> "TypeError"
      [] c.penalty \notin {"canonical", "onb", "rdp", "rdp-ti", "tv"} -> "TypeError"
      [] RLt(c.tolerance, RZero) -> "TypeError"
      [] c.miniter <= 0 \/ c.maxiter <= 0 -> "TypeError"
      [] c.miniter > c.maxiter -> "TypeError"
      [] c.penalty \in {"onb", "rdp", "rdp-ti"} -> "NotImplementedError"
      [] OTHER -> "none"

\* Lines 272-541: the checks, then the initial iterate, gradient and traces.
Setup ==
    /\ pc = "start"
    /\ IF SetupError(cfg) # "none"
       THEN /\ pc' = "raised"
            /\ err' = SetupError(cfg)
            /\ UNCHANGED <<x, xprevious, Ax, Axprevious, grad, alpha,
                           objective, cputime, reconerror>>
       ELSE LET xinit == IF cfg.initialization = <<>> THEN AT(VInt(cfg.y))
                         ELSE cfg.initialization
                Axinit == A(xinit)
            IN /\ pc' = "while"
               /\ err' = "none"
               /\ x' = xinit
               /\ Ax' = Axinit
               /\ alpha' = cfg.alphainit
               /\ Axprevious' = Axinit
               /\ xprevious' = xinit
               /\ grad' = computegrad(cfg.y, Axinit, cfg.A, cfg.noisetype, logepsilon)
               /\ cputime' = ZeroTrace(cfg.maxiter)
               /\ objective' =
                    IF cfg.saveobjective
                    THEN [ZeroTrace(cfg.maxiter) EXCEPT ![itern - 1] =
                            computeobjective(xinit, cfg.y, Axinit, cfg.tau,
                                             cfg.noisetype, logepsilon, cfg.penalty)]
                    ELSE ZeroTrace(cfg.maxiter)
               /\ reconerror' =
                    IF cfg.savereconerror
                    THEN [ZeroTrace(cfg.maxiter) EXCEPT ![itern - 1] =
                            computereconerror(xinit, cfg.mu)]
                    ELSE reconerror
    /\ UNCHANGED <<cfg, itern, converged, dx, Adx, normsqdx, gamma,
                   maxpastobjective, accept, acceptalpha, clock, varargout>>

\* ----------------------------------------------------------- the main loop

\* The loop condition with both budgets compared strictly.
LoopGuardStrict(i, miniter, maxiter, conv) ==
    (i < miniter) \/ ((i < maxiter) /\ ~conv)

\* The loop condition of line 546.
LoopGuard(i, miniter, maxiter, conv) ==
    (i <= miniter) \/ ((i <= maxiter) /\ ~conv)

\* Lines 550-555 (and 563-570, 581-588): the gradient step at step size a,
\* the proximal point, the change dx and the new prediction Ax.
ProximalStep(a) ==
    /\ x' = computesubsolution(VSub(xprevious, VDivS(grad, a)), cfg.tau, a, cfg.mu)
    /\ dx' = VSub(x', xprevious)
    /\ Ax' = A(x')

\* Lines 568-571 (and 586-589): Adx and ||dx||^2, kept for the next alpha.
CurvatureTerms ==
    /\ Adx' = VSub(Ax', Axprevious)
    /\ normsqdx' = VSumSq(dx')

\* alphamethod == 0 (lines 548-555): constant alpha.
ConstantStep ==
    /\ pc = "while"
    /\ LoopGuard(itern, cfg.miniter, cfg.maxiter, converged)
    /\ cfg.alphamethod = 0
    /\ ProximalStep(alpha)
    /\ pc' = "computed"
    /\ UNCHANGED <<cfg, err, itern, converged, xprevious, Axprevious, grad, Adx,
                   alpha, normsqdx, gamma, maxpastobjective, accept,
                   acceptalpha, objective, cputime, reconerror, clock, varargout>>

\* alphamethod == 1 without monotonicity (lines 580-592).
BBStep ==
    /\ pc = "while"
    /\ LoopGuard(itern, cfg.miniter, cfg.maxiter, converged)
    /\ cfg.alphamethod = 1 /\ cfg.monotone = 0
    /\ ProximalStep(alpha)
    /\ CurvatureTerms
    /\ objective' =
         IF cfg.saveobjective
         THEN [objective EXCEPT ![itern] =
                 computeobjective(x', cfg.y, Ax', cfg.tau, cfg.noisetype,
                                  logepsilon, cfg.penalty)]
         ELSE objective
    /\ pc' = "computed"
    /\ UNCHANGED <<cfg, err, itern, converged, xprevious, Axprevious, grad,
                   alpha, gamma, maxpastobjective, accept, acceptalpha,
                   cputime, reconerror, clock, varargout>>

\* objective[past].max() for past = lo..hi (lines 558-559)
RECURSIVE MaxOver(_, _, _)
MaxOver(f, lo, hi) == IF lo = hi THEN f[hi] ELSE RMax(MaxOver(f, lo, hi - 1), f[hi])

\* A window that never slides: past starts at index 0 at every iteration.
PastStartWholeTrace(i, acceptpast) == 0

\* The first index of past = np.arange(max(itern-1-acceptpast,0),itern).
PastStart(i, acceptpast) == IF i - 1 - acceptpast > 0 THEN i - 1 - acceptpast ELSE 0

\* The sufficient-decrease test with the decrease term added, not subtracted.
SufficientDecreaseWrongSign(obj, maxpast, a, nrm) ==
    RLeq(obj, RAdd(maxpast, RMul(RDiv(RMul(acceptdecrease, a), R(2)), nrm)))

\* The sufficient-decrease test, the first operand of line 576.
SufficientDecrease(obj, maxpast, a, nrm) ==
    RLeq(obj, RSub(maxpast, RMul(RDiv(RMul(acceptdecrease, a), R(2)), nrm)))

\* Lines 272-274: acceptalphamax is bound (to alphamax) only when the caller
\* did not pass the keyword.
AcceptAlphaMaxBound(c) == "acceptalphamax" \notin c.kwargs

\* Line 576, with acceptalphamax bound.
AcceptTest(obj, maxpast, a, nrm, acceptalphamax) ==
    SufficientDecrease(obj, maxpast, a, nrm) \/ RLeq(acceptalphamax, a)

\* One round of the acceptance loop (lines 562-579) at step size a.
Round(a, maxpast) ==
    /\ ProximalStep(a)
    /\ CurvatureTerms
    /\ objective' = [objective EXCEPT ![itern] =
                       computeobjective(x', cfg.y, Ax', cfg.tau, cfg.noisetype,
                                        logepsilon, cfg.penalty)]
    /\ IF ~SufficientDecrease(objective'[itern], maxpast, a, normsqdx')
             /\ ~AcceptAlphaMaxBound(cfg)
       THEN \* the second operand of line 576 reads an unbound local
            /\ pc' = "raised"
            /\ err' = "UnboundLocalError"
            /\ accept' = 0
            /\ UNCHANGED <<acceptalpha, alpha>>
       ELSE /\ pc' = "inner"
            /\ err' = err
            /\ accept' = IF AcceptTest(objective'[itern], maxpast, a, normsqdx',
                                       cfg.alphamax)
                         THEN 1 ELSE 0
            /\ acceptalpha' = a
            /\ alpha' = RMul(R(acceptmult), a)

\* alphamethod == 1 with monotone (lines 557-579): the window's maximum and
\* the first round of the acceptance loop.
MonotoneStep ==
    /\ pc = "while"
    /\ LoopGuard(itern, cfg.miniter, cfg.maxiter, converged)
    /\ cfg.alphamethod = 1 /\ cfg.monotone = 1
    /\ maxpastobjective' = MaxOver(objective, PastStart(itern, cfg.acceptpast), itern - 1)
    /\ Round(alpha, maxpastobjective')
    /\ UNCHANGED <<cfg, itern, converged, xprevious, Axprevious, grad, gamma,
                   cputime, reconerror, clock, varargout>>

\* A further round of while accept==0 (lines 561-579).
BacktrackRound ==
    /\ pc = "inner"
    /\ accept = 0
    /\ Round(alpha, maxpastobjective)
    /\ UNCHANGED <<cfg, itern, converged, xprevious, Axprevious, grad, gamma,
                   maxpastobjective, cputime, reconerror, clock, varargout>>

\* Lines 631-635: Adx rescaled for the Poisson model.
ScaledAdx(c, adx, ax) ==
    IF c.noisetype = "poisson"
    THEN [i \in Idx(adx) |->
            RDiv(RMul(adx[i], R(ISqrt(c.y[i]))), RAdd(ax[i], logepsilon))]
    ELSE adx

\* The Barzilai-Borwein step size without the clamp of line 640.
BBAlphaUnclamped(g, nrm, alphamin, alphamax) ==
    IF g = RZero THEN alphamin ELSE RDiv(g, nrm)

\* Lines 636-640: the Barzilai-Borwein step size for the next iteration.
BBAlpha(g, nrm, alphamin, alphamax) ==
    IF g = RZero THEN alphamin
    ELSE RMin(alphamax, RMax(RDiv(g, nrm), alphamin))

\* The ticks one iteration may add to time.time()-tic: one or two where the
\* stopping criterion reads the clock, so that the verdict can come at
\* different iterations; elsewhere the clock decides nothing and one tick
\* per iteration stands for every duration.
Ticks(c) == IF c.stopcriterion = 2 THEN {1, 2} ELSE {1}

\* Lines 593-645: the traces, the new gradient, the convergence verdict, the
\* next alpha, and the roll to the next iteration.
Finish ==
    /\ pc = "computed" \/ (pc = "inner" /\ accept = 1)
    /\ \E dt \in Ticks(cfg) : clock' = clock + dt
    /\ cputime' = IF cfg.savecputime THEN [cputime EXCEPT ![itern] = R(clock')]
                  ELSE cputime
    /\ reconerror' = IF cfg.savereconerror
                     THEN [reconerror EXCEPT ![itern] = computereconerror(x, cfg.mu)]
                     ELSE reconerror
    /\ grad' = computegrad(cfg.y, Ax, cfg.A, cfg.noisetype, logepsilon)
    /\ IF checkconvergenceRaises(itern, cfg.miniter, cfg.stopcriterion)
       THEN /\ pc' = "raised"
            /\ err' = "NotImplementedError"
            /\ UNCHANGED <<converged, Adx, gamma, alpha, xprevious, Axprevious, itern>>
       ELSE /\ pc' = "while"
            /\ err' = err
            /\ converged' = checkconvergence(itern, cfg.miniter, cfg.stopcriterion,
                                cfg.tolerance, dx, x, cputime'[itern], objective)
            /\ IF cfg.alphamethod = 1
               THEN /\ Adx' = ScaledAdx(cfg, Adx, Ax)
                    /\ gamma' = VSumSq(Adx')
                    /\ alpha' = BBAlpha(gamma', normsqdx, cfg.alphamin, cfg.alphamax)
               ELSE UNCHANGED <<Adx, gamma, alpha>>
            /\ xprevious' = x
            /\ Axprevious' = Ax
            /\ itern' = itern + 1
    /\ UNCHANGED <<cfg, x, Ax, dx, normsqdx, maxpastobjective, accept,
                   acceptalpha, objective, varargout>>

\* Line 657: itern was incremented once more than iterations were run.
IterationsPerformed(i) == i - 1

\* trace[0:n+1], the slice the commented-out lines 662-671 question.
CropInclusive(trace, n) ==
    LET size == Cardinality(DOMAIN trace)
    IN [k \in 1..(IF n + 1 < size THEN n + 1 ELSE size) |-> trace[k - 1]]

\* trace[0:n] (lines 661-667), as a sequence: a slice ends where the array does.
Crop(trace, n) ==
    LET size == Cardinality(DOMAIN trace)
    IN [k \in 1..(IF n < size THEN n ELSE size) |-> trace[k - 1]]

\* Lines 650-683: the loop is left; the offset is added back, the traces are
\* cropped and the call returns.
Return ==
    /\ pc = "while"
    /\ ~LoopGuard(itern, cfg.miniter, cfg.maxiter, converged)
    /\ x' = VAddS(x, cfg.mu)
    /\ itern' = IterationsPerformed(itern)
    /\ varargout' =
         [iterations |-> itern',
          objective |-> IF cfg.saveobjective THEN Crop(objective, itern') ELSE <<>>,
          reconerror |-> IF cfg.savereconerror THEN Crop(reconerror, itern') ELSE <<>>,
          cputime |-> IF cfg.savecputime THEN Crop(cputime, itern') ELSE <<>>]
    /\ pc' = "done"
    /\ UNCHANGED <<cfg, err, converged, xprevious, Ax, Axprevious, grad, dx, Adx,
                   alpha, normsqdx, gamma, maxpastobjective, accept,
                   acceptalpha, objective, cputime, reconerror, clock>>

Next ==
    \/ Setup
    \/ ConstantStep
    \/ BBStep
    \/ MonotoneStep
    \/ BacktrackRound
    \/ Finish
    \/ Return

Spec == Init /\ [][Next]_vars

\* The calls on the operator that makes the acceptance loop reject
\* candidates, with every trace saved.
BacktrackingConfigs ==
    { Config(nd, SwapTwice, R(0), R(0), al, st, sp, it, <<TRUE, TRUE, TRUE>>) :
        nd \in NoiseData, al \in AlphaSettings, st \in StepSettings,
        sp \in StopSettings, it \in IterSettings }

FairInit == Entry(BacktrackingConfigs)

\* A rejected round of the acceptance loop: the loop body runs once more.
RoundRejected == pc = "inner" /\ accept = 0

\* Control leaves the current statement: every step of Next taken outside a
\* rejected round moves pc.
Leave ==
    /\ pc \notin {"raised", "done"}
    /\ ~RoundRejected
    /\ pc' \in {"while", "computed", "inner", "raised", "done"} \ {pc}

\* After a rejected round the loop body runs again at acceptmult*alpha
\* (line 579), unless it raises.
Retry ==
    /\ RoundRejected
    /\ alpha' = RMul(R(acceptmult), alpha)

\* The call is one sequential thread of control: while a next statement
\* exists it is executed, and the run stops only at a return or a raise.
\* Next is enabled exactly where Leave or Retry is, and each of its steps
\* is a step of one of them, so this is weak fairness of Next, stated on
\* the control state and the step size alone.
FairSpec == FairInit /\ [][Next]_vars /\ WF_pc(Leave) /\ WF_alpha(Retry)

\* ================================================================ claims

NonNegative(v) == \A i \in Idx(v) : RLeq(RZero, v[i])

\* C1: the iteration count returned lies between miniter and maxiter.
C1_IterationsWithinBudget ==
    pc = "done" =>
        /\ cfg.miniter <= varargout.iterations
        /\ varargout.iterations <= cfg.maxiter

\* C1 witness: a return at miniter, before maxiter, on a convergence verdict.
C1_Witness ==
    /\ pc = "done"
    /\ converged
    /\ varargout.iterations = cfg.miniter
    /\ cfg.miniter > 1
    /\ cfg.miniter < cfg.maxiter

C3_TraceLengthIsIterationsPlusOne ==
    pc = "done" =>
        /\ cfg.saveobjective =>
             /\ Len(varargout.objective) = varargout.iterations + 1
             /\ varargout.objective[varargout.iterations + 1]
                  = objective[varargout.iterations]
        /\ cfg.savereconerror => Len(varargout.reconerror) = varargout.iterations + 1
        /\ cfg.savecputime => Len(varargout.cputime) = varargout.iterations + 1

\* A state right after a call of computesubsolution.
AfterProximalStep == pc \in {"computed", "inner"}

\* C4 (as claimed): x >= 0 after every proximal step, and the returned
\* signal is >= 0.
C4_ReturnedSignalNonnegative ==
    /\ AfterProximalStep => NonNegative(x)
    /\ pc = "done" => NonNegative(x)

\* C4 (amended): x >= 0 after every proximal step; the returned signal is
\* x + mu >= mu, hence >= 0 whenever the offset mu is >= 0.
C4_IterateNonnegativeReturnAboveOffset ==
    /\ AfterProximalStep => NonNegative(x)
    /\ pc = "done" => \A i \in Idx(x) : RLeq(cfg.mu, x[i])
    /\ (pc = "done" /\ RLeq(RZero, cfg.mu)) => NonNegative(x)

\* C4 witness: a returned signal, with offset 0, that has a component at 0
\* and a positive one.
C4_Witness ==
    /\ pc = "done"
    /\ cfg.mu = RZero
    /\ \E i \in Idx(x) : x[i] = RZero
    /\ \E i \in Idx(x) : RLt(RZero, x[i])

\* A candidate of the acceptance loop has just been accepted.
JustAccepted == pc = "inner" /\ accept = 1

\* objective[itern] <= max(objective[lo..itern-1]) - acceptdecrease*a/2*||dx||^2,
\* with lo = max(0, itern-1-acceptpast), a the accepted step size and dx the
\* accepted candidate's change.
WindowDecrease ==
    \E j \in 0..(itern - 1) :
        /\ j >= itern - 1 - cfg.acceptpast
        /\ RLeq(RAdd(objective[itern],
                     RMul(RMul(acceptdecrease, RDiv(acceptalpha, R(2))), VSumSq(dx))),
                objective[j])

\* C5 (as claimed): every accepted iteration satisfies the windowed
\* sufficient-decrease inequality (objective tracked from the initializer on).
C5_AcceptedImpliesDecrease ==
    (JustAccepted /\ cfg.saveobjective /\ cfg.tau = RZero /\ cfg.mu = RZero) => WindowDecrease

\* C5 (amended): every accepted iteration satisfies the inequality, or was
\* accepted because its step size had reached alphamax (forced acceptance).
C5_AcceptedDecreaseOrForced ==
    JustAccepted => (WindowDecrease \/ RLeq(cfg.alphamax, acceptalpha))

\* C5 witness: a candidate accepted below alphamax, at a later iteration,
\* after a real move.
C5_Witness ==
    /\ JustAccepted
    /\ itern >= 2
    /\ RLt(acceptalpha, cfg.alphamax)
    /\ normsqdx # RZero
    /\ WindowDecrease

\* C6 (as claimed): the canonical objective is the data-fit term plus
\* sum(|tau*x|): objective[0] at the initializer and objective[itern] at
\* each candidate of the acceptance loop.
C6_ObjectiveIncludesPenalty ==
    /\ (pc = "while" /\ itern = 1 /\ cfg.saveobjective) =>
           objective[0] = RAdd(DataFit(cfg.y, Ax, cfg.noisetype, logepsilon),
                               PenaltyTerm(cfg.tau, x))
    /\ pc = "inner" =>
           objective[itern] = RAdd(DataFit(cfg.y, Ax, cfg.noisetype, logepsilon),
                                   PenaltyTerm(cfg.tau, x))

\* C7 (as claimed): all-zero Poisson data, criterion 3, no offset: the call
\* returns x = 0 after exactly miniter iterations.
C7_ZeroDataStopsAtMiniter ==
    (/\ pc = "done"
     /\ cfg.noisetype = "poisson" /\ cfg.y = <<0, 0>> /\ cfg.initialization = <<>>
     /\ cfg.stopcriterion = 3 /\ cfg.mu = RZero)
    => (x = Zeros /\ varargout.iterations = cfg.miniter)

\* v clamped into [lo, hi]
Clamped(v, lo, hi) == IF RLt(v, lo) THEN lo ELSE IF RLt(hi, v) THEN hi ELSE v

\* C8: under BB, after an iteration with gamma = 0 (so whenever dx = 0) the
\* next alpha is alphamin; otherwise it is gamma/||dx||^2 clamped into
\* [alphamin, alphamax].
C8_BBFallbackAndClamp ==
    (pc = "while" /\ itern > 1 /\ cfg.alphamethod = 1) =>
        /\ gamma = RZero => alpha = cfg.alphamin
        /\ dx = Zeros => alpha = cfg.alphamin
        /\ gamma # RZero =>
             alpha = Clamped(RDiv(gamma, normsqdx), cfg.alphamin, cfg.alphamax)

\* C8 witness: a degenerate step (dx = 0) taken at a step size above
\* alphamin, after which alpha is back at alphamin.
C8_Witness ==
    /\ pc = "while" /\ itern > 1 /\ cfg.alphamethod = 1
    /\ dx = Zeros /\ gamma = RZero
    /\ RLt(cfg.alphamin, cfg.alphainit)
    /\ alpha = cfg.alphamin

\* alpha is about to be used for a gradient step and proximal point.
AlphaInUse ==
    \/ pc = "while" /\ LoopGuard(itern, cfg.miniter, cfg.maxiter, converged)
    \/ pc = "inner" /\ accept = 0

\* C9 (as claimed): wherever alpha is used, 0 < alphamin <= alpha <= alphamax
\* (objective tracked, no offset, tau = 0).
C9_AlphaWithinBounds ==
    (AlphaInUse /\ cfg.saveobjective /\ cfg.mu = RZero /\ cfg.tau = RZero) =>
        /\ RLt(RZero, cfg.alphamin)
        /\ RLeq(cfg.alphamin, alpha)
        /\ RLeq(alpha, cfg.alphamax)

ReturnsAtBudget ==
    (cfg.stopcriterion = 1 /\ pc = "done") =>
        (~converged /\ varargout.iterations = cfg.maxiter)

\* The call names a noise model the code does not know, or a minimum budget
\* above the maximum one.
InvalidNoiseOrBudget ==
    cfg.noisetype \notin {"poisson", "gaussian"} \/ cfg.miniter > cfg.maxiter

\* C11: a call with an unknown noise model or with miniter > maxiter ends in
\* a TypeError before the loop: no iteration runs, neither the gradient nor
\* the objective is evaluated, and nothing is returned.
C11_InvalidConfigurationFailsFast ==
    InvalidNoiseOrBudget =>
        /\ pc \in {"start", "raised"}
        /\ pc = "raised" => err = "TypeError"
        /\ itern = 1
        /\ grad = Zeros /\ x = Zeros
        /\ objective = ZeroTrace(0)
        /\ varargout = [iterations |-> 0]

\* C11 witness: the call with miniter > maxiter, on a known noise model, has
\* failed.
C11_Witness ==
    /\ pc = "raised" /\ err = "TypeError"
    /\ cfg.miniter > cfg.maxiter
    /\ cfg.noisetype = "gaussian"

\* The call with the unknown noise model and an ordered budget has failed.
UnknownNoiseRaised ==
    /\ pc = "raised" /\ err = "TypeError"
    /\ cfg.noisetype = "laplace"
    /\ cfg.miniter <= cfg.maxiter

\* The body of the main loop has run at least in part: a proximal step has
\* been taken or an iteration completed.
IterationExecuted == pc \in {"computed", "inner", "done"} \/ itern > 1

\* C12 (as claimed): with stopping criterion 5 or 6 the call fails before
\* the loop starts: no iteration of the main loop executes.
C12_UnimplementedCriterionFailsBeforeLoop ==
    cfg.stopcriterion \in {5, 6} => ~IterationExecuted

\* C13 (as claimed): with a stopping criterion outside 1..6 the call fails
\* with a configuration error: it runs no iteration and does not return.
C13_UnknownCriterionFails ==
    cfg.stopcriterion \notin 1..6 =>
        /\ ~IterationExecuted
        /\ pc # "done"
        /\ pc = "raised" => err = "TypeError"

\* The verdict of an iteration at or after miniter has just been computed.
VerdictComputed == pc = "while" /\ itern > 1 /\ itern - 1 >= cfg.miniter

\* C14 (as claimed): with stopping criterion 2 the verdict of an iteration
\* at or after miniter is true exactly when the time elapsed since the start
\* of the loop has reached tolerance, whatever traces are saved.
C14_ElapsedTimeVerdict ==
    (cfg.stopcriterion = 2 /\ VerdictComputed) =>
        (converged <=> RLeq(cfg.tolerance, R(clock)))

\* With the elapsed-time trace saved, the verdict is the comparison of the
\* elapsed time with tolerance.
ElapsedTimeVerdictWhenSaved ==
    (cfg.stopcriterion = 2 /\ VerdictComputed /\ cfg.savecputime) =>
        (converged <=> RLeq(cfg.tolerance, R(clock)))

\* An iteration under BB with monotone acceptance is about to start.
AcceptanceLoopAhead ==
    /\ pc = "while"
    /\ LoopGuard(itern, cfg.miniter, cfg.maxiter, converged)
    /\ cfg.alphamethod = 1 /\ cfg.monotone = 1

BacktrackingAcceptsByDefault ==
    (AcceptanceLoopAhead /\ AcceptAlphaMaxBound(cfg)) ~> JustAccepted

\* Iteration itern-1 has just been completed: x and Ax are its iterate and
\* prediction.
IterationCompleted == pc = "while" /\ itern > 1

\* The objective evaluator applied to the current iterate.
ObjectiveAtIterate ==
    computeobjective(x, cfg.y, Ax, cfg.tau, cfg.noisetype, logepsilon, cfg.penalty)

\* C16 (as claimed): with saveobjective set, after every executed iteration
\* k the entry objective[k] is the objective evaluated at the iterate of
\* iteration k, under every step-size configuration.
C16_ObjectiveRecordedEveryIteration ==
    (IterationCompleted /\ cfg.saveobjective) =>
        objective[itern - 1] = ObjectiveAtIterate

\* Under BB, with or without monotone acceptance, the entry is recorded.
ObjectiveRecordedUnderBB ==
    (IterationCompleted /\ cfg.saveobjective /\ cfg.alphamethod = 1) =>
        objective[itern - 1] = ObjectiveAtIterate

\* The indices the acceptance test of iteration itern looks back on: the
\* entries from itern-1-acceptpast (index 0 at the earliest) to itern-1.
Window == { j \in 0..(itern - 1) : j >= itern - 1 - cfg.acceptpast }

\* The entries of the last min(itern-1, acceptpast) iterations.
LastAcceptpastIterations == { k \in 1..(itern - 1) : k >= itern - cfg.acceptpast }

\* m is the maximum of the objective trace over the indices W.
IsMaxOver(m, W) ==
    /\ \E j \in W : m = objective[j]
    /\ \A j \in W : RLeq(objective[j], m)

\* C17 (as claimed): maxpastobjective is the maximum over the entries of the
\* last min(itern-1, acceptpast) iterations, at most acceptpast values (taken
\* where that window is not empty, with the objective tracked from the
\* initializer on).
C17_WindowOfAcceptpastValues ==
    (pc = "inner" /\ cfg.saveobjective /\ LastAcceptpastIterations # {}) =>
        IsMaxOver(maxpastobjective, LastAcceptpastIterations)

\* C17 (amended): maxpastobjective is the maximum over the entries
\* max(itern-1-acceptpast, 0) .. itern-1 of the trace: min(itern,
\* acceptpast+1) values, the initializer's entry 0 among them while the
\* window has not slid past it.
C17_WindowOfAcceptpastPlusOneValues ==
    pc = "inner" =>
        /\ IsMaxOver(maxpastobjective, Window)
        /\ Cardinality(Window) =
              IF itern < cfg.acceptpast + 1 THEN itern ELSE cfg.acceptpast + 1

\* C17 witness: at the third iteration with acceptpast = 1 the window has
\* slid past the initializer's entry, which is above the window's maximum.
C17_Witness ==
    /\ pc = "inner" /\ itern = 3
    /\ cfg.acceptpast = 1 /\ cfg.saveobjective
    /\ Window = {1, 2}
    /\ objective[1] # objective[2]
    /\ RLt(maxpastobjective, objective[0])

\* The objective evaluator applied to the previous iterate, the one the
\* newest entry objective[itern-1] of the window stands for.
ObjectiveAtPrevious ==
    computeobjective(xprevious, cfg.y, Axprevious, cfg.tau, cfg.noisetype,
                     logepsilon, cfg.penalty)

\* C18 (as claimed): the newest entry the acceptance test reads,
\* objective[itern-1], is the evaluator's value at the previous iterate (at
\* the initializer for itern = 1), whether or not saveobjective is set.
C18_WindowEntriesWereEvaluated ==
    pc = "inner" => objective[itern - 1] = ObjectiveAtPrevious

\* With saveobjective set the newest entry of the window is the evaluator's
\* value at the previous iterate.
WindowEntryEvaluatedWhenSaved ==
    (pc = "inner" /\ cfg.saveobjective) => objective[itern - 1] = ObjectiveAtPrevious
====
